---- MODULE Spec2Model ----
(***************************************************************************)
(* Hackathon teams: the roster page (app/hackathons/teams/page.tsx), the   *)
(* full-wipe seeder (scripts/seed-hackathon-teams.ts) and the selective-   *)
(* cleanup seeder variant, over one document store.  Every await of the    *)
(* source is one step of the model; the code between two awaits runs       *)
(* inside the step that follows the first.                                 *)
(***************************************************************************)
EXTENDS Naturals, Integers, Sequences, FiniteSets, TLC

\* ------------------------------------------------------------------ bounds
MaxInitTeams == 2    \* team documents in the store before anything runs
MaxRuns == 2         \* times the seeder script is run, one run after the other
MaxAborts == 1       \* seeder runs that end in main().catch
MaxCalls == 2        \* roster-page handler invocations in flight at once
MaxClicks == 3       \* "Request to join" clicks over a behaviour
MaxAuthChanges == 1  \* changes of the session's user over a behaviour

\* --------------------------------------------------------------- constants
None == "none"              \* no user
NoId == 0                   \* no document id (null); store ids start at 1
CurrentId == "2024-06"     \* getCurrentVirtualHackathonId()
OtherId == "2024-05"       \* an earlier event
Events == {CurrentId, OtherId}
Viewers == {"u1"}          \* uids the session provider can supply
MOCK_POOL_USER_ID == "mock-pool-user-1"
MockPoolDisplayName == "Jordan Lee"
Seeders == {1, 2}

\* The teams fixture of both seeders.
FixtureTeams ==
  << [name |-> "Full Stack Crew",
      memberIds |-> <<"mock-member-1", "mock-member-2", "mock-member-3">>,
      wins |-> 1],
     [name |-> "Open Slot Squad",
      memberIds |-> <<"mock-member-4", "mock-member-5">>,
      wins |-> 1] >>

VARIABLES
  hackathonTeams,        \* collection: [id, hackathonId, memberIds, name, createdBy, wins]
  hackathonSubmissions,  \* collection: [id, hackathonId, teamId, registeredBy]
  hackathonInvites,      \* collection: [id, teamId]
  hackathonJoinRequests, \* collection: [id, fromUserId, teamId, status]
  hackathonPool,         \* collection: [id, userId, hackathonId], id = <<userId, hackathonId>>
  users,                 \* collection: [id, displayName]
  nextId,                \* the next store-assigned document id
  adminDb,               \* getAdminDb() returned a handle
  seed,                  \* per seeder process: position and locals of main()
  hist,                  \* history: runs started/completed/aborted, the first
                         \* run's result, the teams deleted, what an aborted run wrote
  db,                    \* the page's store handle is set
  routeId,               \* the page's hackathonId (route parameter or current id)
  user,                  \* useAuth().user
  authLoading,           \* useAuth().loading
  effectPending,         \* the fetch effect is scheduled and has not run yet
  teams,                 \* page state
  loading,               \* page state
  inPool,                \* page state
  myTeamId,              \* page state
  requesting,            \* page state
  calls,                 \* in-flight fetchData / handleRequestToJoin invocations
  view                   \* history of the page: alerts, clicks, sent requests, reads

storeVars == <<hackathonTeams, hackathonSubmissions, hackathonInvites,
               hackathonJoinRequests, hackathonPool, users, nextId>>
seedVars == <<adminDb, seed, hist>>
pageVars == <<db, routeId, user, authLoading, effectPending, teams, loading,
              inPool, myTeamId, requesting, calls, view>>
vars == <<storeVars, seedVars, pageVars>>

\* ----------------------------------------------------------- store helpers
Range(s) == {s[i] : i \in 1..Len(s)}

RECURSIVE SortById(_)
\* A query snapshot's docs, in document-id order.
SortById(S) ==
  IF S = {} THEN <<>>
  ELSE LET d == CHOOSE x \in S : \A y \in S : x.id <= y.id
       IN <<d>> \o SortById(S \ {d})

RECURSIVE ListOf(_)
\* A query snapshot's docs of a collection whose ids are not numbers.
ListOf(S) ==
  IF S = {} THEN <<>>
  ELSE LET d == CHOOSE x \in S : TRUE
       IN <<d>> \o ListOf(S \ {d})

\* collection.where(field, "==", value).get()
WhereHackathon(coll, h) == {d \in coll : d.hackathonId = h}
WhereTeam(coll, t) == {d \in coll : d.teamId = t}

\* ref.delete(): deleting a document that is gone changes nothing.
DeleteDoc(coll, id) == {d \in coll : d.id # id}

\* doc(id).set(fields): replaces the document with that id.
SetDoc(coll, d) == {x \in coll : x.id # d.id} \cup {d}

\* doc(id).set(fields, {merge: true}): the given fields overwrite, others stay.
MergeUser(coll, id, name) ==
  {x \in coll : x.id # id} \cup {[id |-> id, displayName |-> name]}

PoolDocId(u, h) == <<u, h>>

IdsOf(coll) == {d.id : d \in coll}

\* ------------------------------------------------------- initial contents
\* A team document as the application leaves it: an event and a member list.
TeamDoc(i, shape) ==
  [id |-> i, hackathonId |-> shape.hackathonId, memberIds |-> shape.memberIds,
   name |-> "", createdBy |-> "u1", wins |-> 0]

Shape(h, m) == [hackathonId |-> h, memberIds |-> m]

\* Sequences over S of length at most n.
SeqsUpTo(S, n) == UNION {[1..k -> S] : k \in 0..n}

\* The store before anything runs: teams 1..Len(shapes); when rich, every team
\* has one submission (carrying its team's event id), one invite and one
\* pending join request.  poolKeys are the (user, event) pairs in the pool and
\* profiles the user documents.
InitStore(shapes, rich, poolKeys, profiles) ==
  LET n == Len(shapes)
      kids == IF rich THEN 1..n ELSE {}
  IN /\ hackathonTeams = {TeamDoc(i, shapes[i]) : i \in 1..n}
     /\ hackathonSubmissions =
          {[id |-> n + i, hackathonId |-> shapes[i].hackathonId, teamId |-> i,
            registeredBy |-> "u1"] : i \in kids}
     /\ hackathonInvites = {[id |-> 2 * n + i, teamId |-> i] : i \in kids}
     /\ hackathonJoinRequests =
          {[id |-> 3 * n + i, fromUserId |-> "u2", teamId |-> i,
            status |-> "pending"] : i \in kids}
     /\ hackathonPool =
          {[id |-> PoolDocId(k[1], k[2]), userId |-> k[1], hackathonId |-> k[2]] :
             k \in poolKeys}
     /\ users = profiles
     /\ nextId = 4 * n + 1

IdleSeed ==
  [pc |-> "idle", existingTeams |-> <<>>, teamIds |-> <<>>, snap |-> <<>>,
   k |-> 1, docRef |-> 0, startId |-> 0]

InitSeeders ==
  /\ seed = [p \in Seeders |-> IdleSeed]
  /\ hist = [started |-> 0, completed |-> 0, aborted |-> 0, first |-> <<>>,
             removed |-> {}, abortCreated |-> 0,
             pre |-> SortById(WhereHackathon(hackathonTeams, CurrentId))]

\* A slot with no invocation in it.  cu is the user the invocation's closure
\* captured, teamId the argument of handleRequestToJoin.
FreeCall == [kind |-> "free", pc |-> "", cu |-> None, teamId |-> NoId]

\* The page before its first render has committed an effect.
InitPage(route) ==
  /\ routeId = route
  /\ user = None
  /\ authLoading = TRUE
  /\ effectPending = FALSE
  /\ teams = <<>>
  /\ loading = TRUE
  /\ inPool = FALSE
  /\ myTeamId = NoId
  /\ requesting = NoId
  /\ calls = [c \in 1..MaxCalls |-> FreeCall]
  /\ view = [alerts |-> 0, writeFails |-> 0, clicks |-> 0, authChanges |-> 0,
             sent |-> <<>>, lastRead |-> "none", lastReadBy |-> "none",
             lastList |-> <<>>, readWhenDone |-> FALSE]

\* --------------------------------------------------------- full-wipe seeder
SeedRunning == {"qTeams", "qSubs", "delSubs", "qInv", "delInv", "qReq", "delReq",
                "delTeams", "qPool", "delPool", "addTeam", "addSub", "setUser",
                "setPool"}

\* What a run leaves for the event: the numbers of Team, Pool Entry and User
\* Profile records.
Summary(teamColl, poolColl, userColl) ==
  [teams |-> Cardinality(WhereHackathon(teamColl, CurrentId)),
   pool |-> Cardinality(WhereHackathon(poolColl, CurrentId)),
   users |-> Cardinality(userColl)]

\* Control flow between two awaits of main().
ToDelTeams(s) ==
  IF s.existingTeams = <<>> THEN [s EXCEPT !.pc = "qPool"]
  ELSE [s EXCEPT !.pc = "delTeams"]

ToInvLoop(s) ==
  IF s.teamIds = <<>> THEN ToDelTeams(s) ELSE [s EXCEPT !.pc = "qInv"]

\* The end of one pass of the loop over teamIds.
ToNextTeamId(s) ==
  ToInvLoop([s EXCEPT !.snap = <<>>, !.teamIds = Tail(s.teamIds)])

ToNextTeam(s) ==
  IF s.k < Len(FixtureTeams) THEN [s EXCEPT !.pc = "addTeam", !.k = s.k + 1]
  ELSE [s EXCEPT !.pc = "setUser"]

\* main() up to its first await: getAdminDb(), the event id, the refs.
BeginMain(p) ==
  /\ IF adminDb
       THEN /\ seed' = [seed EXCEPT ![p] = [IdleSeed EXCEPT !.pc = "qTeams",
                                                          !.startId = nextId]]
            /\ hist' = [hist EXCEPT !.started = @ + 1]
       ELSE /\ seed' = [seed EXCEPT ![p] = [IdleSeed EXCEPT !.pc = "failed"]]
            /\ hist' = hist
  /\ UNCHANGED <<storeVars, adminDb, pageVars>>

\* The script is started: a process runs main() once.
SeedStart(p) ==
  /\ seed[p].pc = "idle"
  /\ BeginMain(p)

\* The script is started again after it has exited (npx tsx ... once more).
SeedRerun(p) ==
  /\ seed[p].pc \in {"done", "failed"}
  /\ hist.started < MaxRuns
  /\ BeginMain(p)

\* Faulty variant: the query for the event's teams comes back empty.
SeedQueryTeamsEmpty(p) ==
  /\ seed[p].pc = "qTeams"
  /\ seed' = [seed EXCEPT ![p] = [seed[p] EXCEPT !.pc = "qSubs"]]
  /\ UNCHANGED <<storeVars, adminDb, hist, pageVars>>

\* existingTeams = await teamsRef.where("hackathonId", "==", hackathonId).get()
SeedQueryTeams(p) ==
  /\ seed[p].pc = "qTeams"
  /\ LET docs == SortById(WhereHackathon(hackathonTeams, CurrentId))
     IN seed' = [seed EXCEPT ![p] =
                   [seed[p] EXCEPT !.existingTeams = docs,
                             !.teamIds = [i \in 1..Len(docs) |-> docs[i].id],
                             !.pc = "qSubs"]]
  /\ UNCHANGED <<storeVars, adminDb, hist, pageVars>>

\* Faulty variant: the submissions of the event are not looked up, so none is deleted.
SeedQuerySubsSkips(p) ==
  /\ seed[p].pc = "qSubs"
  /\ seed' = [seed EXCEPT ![p] = ToInvLoop(seed[p])]
  /\ UNCHANGED <<storeVars, adminDb, hist, pageVars>>

\* subSnap = await submissionsRef.where("hackathonId", "==", hackathonId).get()
SeedQuerySubs(p) ==
  /\ seed[p].pc = "qSubs"
  /\ LET docs == SortById(WhereHackathon(hackathonSubmissions, CurrentId))
     IN seed' = [seed EXCEPT ![p] =
                   IF docs = <<>> THEN ToInvLoop(seed[p])
                   ELSE [seed[p] EXCEPT !.snap = docs, !.pc = "delSubs"]]
  /\ UNCHANGED <<storeVars, adminDb, hist, pageVars>>

\* for (const d of subSnap.docs) await d.ref.delete()
SeedDeleteSub(p) ==
  /\ seed[p].pc = "delSubs"
  /\ hackathonSubmissions' = DeleteDoc(hackathonSubmissions, Head(seed[p].snap).id)
  /\ seed' = [seed EXCEPT ![p] =
                IF Len(seed[p].snap) = 1 THEN ToInvLoop([seed[p] EXCEPT !.snap = <<>>])
                ELSE [seed[p] EXCEPT !.snap = Tail(seed[p].snap)]]
  /\ UNCHANGED <<hackathonTeams, hackathonInvites, hackathonJoinRequests,
                 hackathonPool, users, nextId, adminDb, hist, pageVars>>

\* invSnap = await invitesRef.where("teamId", "==", teamId).get()
SeedQueryInvites(p) ==
  /\ seed[p].pc = "qInv"
  /\ LET docs == SortById(WhereTeam(hackathonInvites, Head(seed[p].teamIds)))
     IN seed' = [seed EXCEPT ![p] =
                   IF docs = <<>> THEN [seed[p] EXCEPT !.pc = "qReq"]
                   ELSE [seed[p] EXCEPT !.snap = docs, !.pc = "delInv"]]
  /\ UNCHANGED <<storeVars, adminDb, hist, pageVars>>

\* for (const d of invSnap.docs) await d.ref.delete()
SeedDeleteInvite(p) ==
  /\ seed[p].pc = "delInv"
  /\ hackathonInvites' = DeleteDoc(hackathonInvites, Head(seed[p].snap).id)
  /\ seed' = [seed EXCEPT ![p] =
                IF Len(seed[p].snap) = 1 THEN [seed[p] EXCEPT !.snap = <<>>, !.pc = "qReq"]
                ELSE [seed[p] EXCEPT !.snap = Tail(seed[p].snap)]]
  /\ UNCHANGED <<hackathonTeams, hackathonSubmissions, hackathonJoinRequests,
                 hackathonPool, users, nextId, adminDb, hist, pageVars>>

\* Faulty variant: a team's join requests are not looked up, so none is deleted.
SeedQueryRequestsSkips(p) ==
  /\ seed[p].pc = "qReq"
  /\ seed' = [seed EXCEPT ![p] = ToNextTeamId(seed[p])]
  /\ UNCHANGED <<storeVars, adminDb, hist, pageVars>>

\* reqSnap = await joinRequestsRef.where("teamId", "==", teamId).get()
SeedQueryRequests(p) ==
  /\ seed[p].pc = "qReq"
  /\ LET docs == SortById(WhereTeam(hackathonJoinRequests, Head(seed[p].teamIds)))
     IN seed' = [seed EXCEPT ![p] =
                   IF docs = <<>> THEN ToNextTeamId(seed[p])
                   ELSE [seed[p] EXCEPT !.snap = docs, !.pc = "delReq"]]
  /\ UNCHANGED <<storeVars, adminDb, hist, pageVars>>

\* for (const d of reqSnap.docs) await d.ref.delete()
SeedDeleteRequest(p) ==
  /\ seed[p].pc = "delReq"
  /\ hackathonJoinRequests' =
       DeleteDoc(hackathonJoinRequests, Head(seed[p].snap).id)
  /\ seed' = [seed EXCEPT ![p] =
                IF Len(seed[p].snap) = 1 THEN ToNextTeamId(seed[p])
                ELSE [seed[p] EXCEPT !.snap = Tail(seed[p].snap)]]
  /\ UNCHANGED <<hackathonTeams, hackathonSubmissions, hackathonInvites,
                 hackathonPool, users, nextId, adminDb, hist, pageVars>>

\* Faulty variant: the loop over existingTeams.docs deletes nothing.
SeedDeleteTeamKeeps(p) ==
  /\ seed[p].pc = "delTeams"
  /\ seed' = [seed EXCEPT ![p] =
                ToDelTeams([seed[p] EXCEPT !.existingTeams = Tail(seed[p].existingTeams)])]
  /\ UNCHANGED <<storeVars, adminDb, hist, pageVars>>

\* for (const d of existingTeams.docs) await d.ref.delete()
SeedDeleteTeam(p) ==
  /\ seed[p].pc = "delTeams"
  /\ hackathonTeams' = DeleteDoc(hackathonTeams, Head(seed[p].existingTeams).id)
  /\ seed' = [seed EXCEPT ![p] =
                ToDelTeams([seed[p] EXCEPT !.existingTeams = Tail(seed[p].existingTeams)])]
  /\ hist' = [hist EXCEPT !.removed =
                 @ \cup {t \in hackathonTeams : t.id = Head(seed[p].existingTeams).id}]
  /\ UNCHANGED <<hackathonSubmissions, hackathonInvites, hackathonJoinRequests,
                 hackathonPool, users, nextId, adminDb, pageVars>>

\* poolSnap = await poolRef.where("hackathonId", "==", hackathonId).get()
SeedQueryPool(p) ==
  /\ seed[p].pc = "qPool"
  /\ LET docs == ListOf(WhereHackathon(hackathonPool, CurrentId))
     IN seed' = [seed EXCEPT ![p] =
                   IF docs = <<>> THEN [seed[p] EXCEPT !.pc = "addTeam", !.k = 1]
                   ELSE [seed[p] EXCEPT !.snap = docs, !.pc = "delPool"]]
  /\ UNCHANGED <<storeVars, adminDb, hist, pageVars>>

\* for (const d of poolSnap.docs) await d.ref.delete()
SeedDeletePool(p) ==
  /\ seed[p].pc = "delPool"
  /\ hackathonPool' = DeleteDoc(hackathonPool, Head(seed[p].snap).id)
  /\ seed' = [seed EXCEPT ![p] =
                IF Len(seed[p].snap) = 1
                  THEN [seed[p] EXCEPT !.snap = <<>>, !.pc = "addTeam", !.k = 1]
                ELSE [seed[p] EXCEPT !.snap = Tail(seed[p].snap)]]
  /\ UNCHANGED <<hackathonTeams, hackathonSubmissions, hackathonInvites,
                 hackathonJoinRequests, users, nextId, adminDb, hist, pageVars>>

\* The document teamsRef.add() writes for a fixture team.
FixtureDoc(id, team) ==
  [id |-> id, hackathonId |-> CurrentId, memberIds |-> team.memberIds,
   name |-> team.name, createdBy |-> team.memberIds[1], wins |-> team.wins]

\* docRef = await teamsRef.add({...})
SeedAddTeam(p) ==
  /\ seed[p].pc = "addTeam"
  /\ LET team == FixtureTeams[seed[p].k]
     IN /\ hackathonTeams' = hackathonTeams \cup {FixtureDoc(nextId, team)}
        /\ seed' = [seed EXCEPT ![p] =
                      IF team.wins > 0 THEN [seed[p] EXCEPT !.docRef = nextId, !.pc = "addSub"]
                      ELSE ToNextTeam([seed[p] EXCEPT !.docRef = nextId])]
  /\ nextId' = nextId + 1
  /\ UNCHANGED <<hackathonSubmissions, hackathonInvites, hackathonJoinRequests,
                 hackathonPool, users, adminDb, hist, pageVars>>

\* if ((team.wins ?? 0) > 0) await submissionsRef.add({...})
SeedAddSubmission(p) ==
  /\ seed[p].pc = "addSub"
  /\ hackathonSubmissions' = hackathonSubmissions \cup
       {[id |-> nextId, hackathonId |-> CurrentId, teamId |-> seed[p].docRef,
         registeredBy |-> FixtureTeams[seed[p].k].memberIds[1]]}
  /\ nextId' = nextId + 1
  /\ seed' = [seed EXCEPT ![p] = ToNextTeam(seed[p])]
  /\ UNCHANGED <<hackathonTeams, hackathonInvites, hackathonJoinRequests,
                 hackathonPool, users, adminDb, hist, pageVars>>

\* await usersRef.doc(MOCK_POOL_USER_ID).set({...}, { merge: true })
SeedSetUser(p) ==
  /\ seed[p].pc = "setUser"
  /\ users' = MergeUser(users, MOCK_POOL_USER_ID, MockPoolDisplayName)
  /\ seed' = [seed EXCEPT ![p] = [seed[p] EXCEPT !.pc = "setPool"]]
  /\ UNCHANGED <<hackathonTeams, hackathonSubmissions, hackathonInvites,
                 hackathonJoinRequests, hackathonPool, nextId, adminDb, hist,
                 pageVars>>

\* await poolRef.doc(poolDocId).set({...}); main() returns.
SeedSetPool(p) ==
  /\ seed[p].pc = "setPool"
  /\ hackathonPool' =
       SetDoc(hackathonPool,
              [id |-> PoolDocId(MOCK_POOL_USER_ID, CurrentId),
               userId |-> MOCK_POOL_USER_ID, hackathonId |-> CurrentId])
  /\ seed' = [seed EXCEPT ![p] = [seed[p] EXCEPT !.pc = "done"]]
  /\ hist' = [hist EXCEPT
                !.completed = @ + 1,
                !.first = IF @ = <<>>
                            THEN <<Summary(hackathonTeams, hackathonPool', users)>>
                            ELSE @]
  /\ UNCHANGED <<hackathonTeams, hackathonSubmissions, hackathonInvites,
                 hackathonJoinRequests, users, nextId, adminDb, pageVars>>

\* An awaited store call rejects: main().catch logs and the process exits 1.
\* The call that failed wrote nothing.
SeedFail(p) ==
  /\ seed[p].pc \in SeedRunning
  /\ hist.aborted < MaxAborts
  /\ seed' = [seed EXCEPT ![p] = [IdleSeed EXCEPT !.pc = "failed",
                                                  !.startId = seed[p].startId]]
  /\ hist' = [hist EXCEPT !.aborted = @ + 1,
                           !.abortCreated = nextId - seed[p].startId]
  /\ UNCHANGED <<storeVars, adminDb, pageVars>>

FullWipeStep(p) ==
  \/ SeedQueryTeams(p)
  \/ SeedQuerySubs(p)
  \/ SeedDeleteSub(p)
  \/ SeedQueryInvites(p)
  \/ SeedDeleteInvite(p)
  \/ SeedQueryRequests(p)
  \/ SeedDeleteRequest(p)
  \/ SeedDeleteTeam(p)
  \/ SeedQueryPool(p)
  \/ SeedDeletePool(p)
  \/ SeedAddTeam(p)
  \/ SeedAddSubmission(p)
  \/ SeedSetUser(p)
  \/ SeedSetPool(p)

\* ------------------------------------------- the full-wipe seeder on its own
SeedShapes ==
  {Shape(CurrentId, <<"u1">>), Shape(CurrentId, <<"u1", "u2">>),
   Shape(CurrentId, <<"u1", "u2", "u3">>), Shape(OtherId, <<"u1", "u2">>)}

Init ==
  /\ \E shapes \in SeqsUpTo(SeedShapes, MaxInitTeams), rich \in BOOLEAN :
       InitStore(shapes, rich,
                 IF rich THEN {<<"u1", CurrentId>>, <<"u1", OtherId>>} ELSE {},
                 IF rich THEN {[id |-> "u1", displayName |-> "Uma"],
                               [id |-> MOCK_POOL_USER_ID, displayName |-> "stale"]}
                 ELSE {})
  /\ adminDb \in BOOLEAN
  /\ InitSeeders
  /\ db = TRUE
  /\ InitPage(CurrentId)

Next ==
  \/ SeedStart(1)
  \/ SeedRerun(1)
  \/ FullWipeStep(1)
  \/ SeedFail(1)

Spec == Init /\ [][Next]_vars

\* ------------------------------------------------------------ roster page
\* list.find((t) => t.memberIds.includes(uid))?.id ?? null
RECURSIVE FindMyTeam(_, _)
FindMyTeam(list, uid) ==
  IF list = <<>> THEN NoId
  ELSE IF uid \in Range(Head(list).memberIds) THEN Head(list).id
  ELSE FindMyTeam(Tail(list), uid)

\* Faulty variant: open teams also need at least two members.
TeamsWithSlotsFromTwo(list) ==
  SelectSeq(list, LAMBDA t : Len(t.memberIds) < 3 /\ Len(t.memberIds) >= 2)

\* teams.filter((t) => t.memberIds.length < 3)
TeamsWithSlots(list) == SelectSeq(list, LAMBDA t : Len(t.memberIds) < 3)

\* teams.filter((t) => t.memberIds.length === 3)
FullTeams(list) == SelectSeq(list, LAMBDA t : Len(t.memberIds) = 3)

teamsWithSlots == TeamsWithSlots(teams)
fullTeams == FullTeams(teams)

\* The page shows the roster and not the spinner.
Rendered == ~authLoading /\ ~loading

\* Faulty variant: the member-list test is left out.
CanRequestNoMemberTest(t) ==
  /\ user # None
  /\ inPool
  /\ t.id # myTeamId

\* canRequest = user && inPool && !isMyTeam && !t.memberIds.includes(user.uid)
CanRequest(t) ==
  /\ user # None
  /\ inPool
  /\ t.id # myTeamId
  /\ user \notin Range(t.memberIds)

\* The teams whose "Request to join" control is in the rendered page.
RequestButtons ==
  IF Rendered THEN {t.id : t \in {x \in Range(teamsWithSlots) : CanRequest(x)}}
  ELSE {}

FreeSlots == {c \in 1..MaxCalls : calls[c].kind = "free"}
FirstFree == CHOOSE c \in FreeSlots : \A d \in FreeSlots : c <= d

\* The session provider resolves, or the user signs in or out; the effect that
\* depends on authLoading and fetchData is scheduled.
AuthChange(u) ==
  /\ authLoading \/ u # user
  /\ view.authChanges < MaxAuthChanges
  /\ authLoading' = FALSE
  /\ user' = u
  /\ effectPending' = TRUE
  /\ view' = [view EXCEPT !.authChanges = @ + 1]
  /\ UNCHANGED <<storeVars, seedVars, db, routeId, teams, loading, inPool,
                 myTeamId, requesting, calls>>

\* useEffect: if (authLoading) return; fetchData() up to its first await.
RunEffect ==
  /\ effectPending
  /\ ~authLoading
  /\ FreeSlots # {}
  /\ effectPending' = FALSE
  /\ IF db
       THEN /\ loading' = TRUE
            /\ calls' = [calls EXCEPT ![FirstFree] =
                           [kind |-> "fetch", pc |-> "getDocs", cu |-> user,
                            teamId |-> NoId]]
            /\ view' = [view EXCEPT !.lastRead = "pending", !.lastReadBy = "fetch"]
       ELSE /\ loading' = FALSE
            /\ UNCHANGED <<calls, view>>
  /\ UNCHANGED <<storeVars, seedVars, db, routeId, user, authLoading, teams,
                 inPool, myTeamId, requesting>>

\* fetchData's finally, and handleRequestToJoin's when the call is a join.
FinishCall(c) ==
  /\ loading' = FALSE
  /\ requesting' = IF calls[c].kind = "join" THEN NoId ELSE requesting
  /\ calls' = [calls EXCEPT ![c] = FreeCall]

\* Faulty variant: the team query has no event filter.
RosterQueryAllEvents(coll, route) == SortById(coll)

\* getDocs(query(teamsRef, where("hackathonId", "==", hackathonId))).docs
RosterQuery(coll, route) == SortById(WhereHackathon(coll, route))

\* openSlots = 3 - t.memberIds.length
OpenSlots(t) == 3 - Len(t.memberIds)

AllSeedersDone ==
  /\ hist.completed >= 1
  /\ \A p \in Seeders : seed[p].pc \in {"idle", "done"}

\* snap = await getDocs(q) resolves: setTeams, then myTeamId, then the pool read
\* starts; with no user the call ends here.
GetDocs(c) ==
  /\ calls[c].pc = "getDocs"
  /\ LET list == RosterQuery(hackathonTeams, routeId)
         cu == calls[c].cu
     IN /\ teams' = list
        /\ IF cu # None
             THEN /\ myTeamId' = FindMyTeam(list, cu)
                  /\ calls' = [calls EXCEPT ![c].pc = "getDoc"]
                  /\ UNCHANGED <<inPool, loading, requesting>>
             ELSE /\ myTeamId' = NoId
                  /\ inPool' = FALSE
                  /\ FinishCall(c)
        /\ view' = [view EXCEPT
                      !.lastRead = IF cu # None THEN "pending" ELSE "ok",
                      !.lastReadBy = calls[c].kind,
                      !.lastList = list,
                      !.readWhenDone = AllSeedersDone]
  /\ UNCHANGED <<storeVars, seedVars, db, routeId, user, authLoading,
                 effectPending>>

\* Faulty variant: a failed team query empties the list.
GetDocsFailEmpties(c) ==
  /\ calls[c].pc = "getDocs"
  /\ FinishCall(c)
  /\ teams' = <<>>
  /\ view' = [view EXCEPT !.lastRead = "teamsFailed", !.lastReadBy = calls[c].kind]
  /\ UNCHANGED <<storeVars, seedVars, db, routeId, user, authLoading,
                 effectPending, inPool, myTeamId>>

\* getDocs rejects: catch logs, finally runs.
GetDocsFail(c) ==
  /\ calls[c].pc = "getDocs"
  /\ FinishCall(c)
  /\ view' = [view EXCEPT !.lastRead = "teamsFailed", !.lastReadBy = calls[c].kind]
  /\ UNCHANGED <<storeVars, seedVars, db, routeId, user, authLoading,
                 effectPending, teams, inPool, myTeamId>>

\* poolSnap = await getDoc(poolRef) resolves: setInPool(poolSnap.exists()).
GetDoc(c) ==
  /\ calls[c].pc = "getDoc"
  /\ inPool' = (PoolDocId(calls[c].cu, routeId) \in IdsOf(hackathonPool))
  /\ FinishCall(c)
  /\ view' = [view EXCEPT !.lastRead = "ok", !.lastReadBy = calls[c].kind]
  /\ UNCHANGED <<storeVars, seedVars, db, routeId, user, authLoading,
                 effectPending, teams, myTeamId>>

\* getDoc rejects: catch logs, finally runs.
GetDocFail(c) ==
  /\ calls[c].pc = "getDoc"
  /\ FinishCall(c)
  /\ view' = [view EXCEPT !.lastRead = "poolFailed", !.lastReadBy = calls[c].kind]
  /\ UNCHANGED <<storeVars, seedVars, db, routeId, user, authLoading,
                 effectPending, teams, inPool, myTeamId>>

\* A click on an enabled "Request to join" control: handleRequestToJoin(t) up
\* to its await.
Click(t) ==
  /\ t \in RequestButtons
  /\ requesting # t
  /\ db /\ user # None
  /\ FreeSlots # {}
  /\ view.clicks < MaxClicks
  /\ requesting' = t
  /\ calls' = [calls EXCEPT ![FirstFree] =
                 [kind |-> "join", pc |-> "addDoc", cu |-> user, teamId |-> t]]
  /\ view' = [view EXCEPT !.clicks = @ + 1]
  /\ UNCHANGED <<storeVars, seedVars, db, routeId, user, authLoading,
                 effectPending, teams, loading, inPool, myTeamId>>

\* The document addDoc writes.
JoinRequestDoc(id, uid, t) ==
  [id |-> id, fromUserId |-> uid, teamId |-> t, status |-> "pending"]

\* Faulty variant: a request equal to an existing one is not written again.
AddJoinRequestOnce(coll, id, uid, t) ==
  IF \E r \in coll : r.fromUserId = uid /\ r.teamId = t /\ r.status = "pending"
    THEN coll
  ELSE coll \cup {JoinRequestDoc(id, uid, t)}

\* addDoc(collection(db, "hackathonJoinRequests"), {...})
AddJoinRequest(coll, id, uid, t) == coll \cup {JoinRequestDoc(id, uid, t)}

\* await addDoc(...) resolves; fetchData() runs up to its first await.
AddDoc(c) ==
  /\ calls[c].pc = "addDoc"
  /\ hackathonJoinRequests' =
       AddJoinRequest(hackathonJoinRequests, nextId, calls[c].cu, calls[c].teamId)
  /\ nextId' = nextId + 1
  /\ loading' = TRUE
  /\ calls' = [calls EXCEPT ![c].pc = "getDocs"]
  /\ view' = [view EXCEPT !.sent = Append(@, <<calls[c].cu, calls[c].teamId>>),
                          !.lastRead = "pending", !.lastReadBy = "join"]
  /\ UNCHANGED <<hackathonTeams, hackathonSubmissions, hackathonInvites,
                 hackathonPool, users, seedVars, db, routeId, user, authLoading,
                 effectPending, teams, inPool, myTeamId, requesting>>

\* addDoc rejects: catch logs and alerts, finally clears requesting.
AddDocFail(c) ==
  /\ calls[c].pc = "addDoc"
  /\ requesting' = NoId
  /\ calls' = [calls EXCEPT ![c] = FreeCall]
  /\ view' = [view EXCEPT !.alerts = @ + 1, !.writeFails = @ + 1]
  /\ UNCHANGED <<storeVars, seedVars, db, routeId, user, authLoading,
                 effectPending, teams, loading, inPool, myTeamId>>

\* ------------------------------------------- the page over a store at rest
\* The page's start over a store holding the given teams.
InitOfPage(shapeSet, routes) ==
  /\ \E shapes \in SeqsUpTo(shapeSet, MaxInitTeams),
        poolKeys \in {{}, {<<"u1", CurrentId>>, <<"u2", OtherId>>}} :
       InitStore(shapes, FALSE, poolKeys, {})
  /\ adminDb = TRUE
  /\ InitSeeders
  /\ db \in BOOLEAN
  /\ \E route \in routes : InitPage(route)

\* Reads: the session, the effect, and fetchData with each read resolving or
\* rejecting.
PageRead ==
  \/ \E u \in Viewers \cup {None} : AuthChange(u)
  \/ RunEffect
  \/ \E c \in 1..MaxCalls :
       \/ GetDocs(c)
       \/ GetDocsFail(c)
       \/ GetDoc(c)
       \/ GetDocFail(c)

\* Writes: handleRequestToJoin with its write resolving or rejecting.
PageWrite ==
  \/ \E t \in IdsOf(hackathonTeams) : Click(t)
  \/ \E c \in 1..MaxCalls :
       \/ AddDoc(c)
       \/ AddDocFail(c)

\* The page with a user who requests to join: open teams the user is not on.
ClickShapes == {Shape(CurrentId, <<"u2", "u3">>)}

InitPageClicks == InitOfPage(ClickShapes, {CurrentId})

NextPage == PageRead \/ PageWrite

SpecPage == InitPageClicks /\ [][NextPage]_vars

\* The page as a viewer of rosters of every shape, for either event.
ViewShapes ==
  {Shape(CurrentId, <<>>), Shape(CurrentId, <<"u1">>),
   Shape(CurrentId, <<"u2", "u3">>), Shape(CurrentId, <<"u1", "u2", "u3">>),
   Shape(CurrentId, <<"u1", "u2", "u3", "u4">>), Shape(OtherId, <<"u1", "u2">>)}

InitView == InitOfPage(ViewShapes, Events)

NextView == PageRead

SpecView == InitView /\ [][NextView]_vars

\* -------------------------------------- the page next to one seeder run
InitRoster ==
  /\ \E shapes \in SeqsUpTo(SeedShapes, MaxInitTeams), rich \in BOOLEAN :
       InitStore(shapes, rich,
                 IF rich THEN {<<"u1", CurrentId>>, <<"u1", OtherId>>} ELSE {},
                 {})
  /\ adminDb = TRUE
  /\ InitSeeders
  /\ db = TRUE
  /\ InitPage(CurrentId)

NextRoster ==
  \/ SeedStart(1)
  \/ FullWipeStep(1)
  \/ PageRead

SpecRoster == InitRoster /\ [][NextRoster]_vars

\* ------------------------------- two seeder runs and a signed-out visitor
RaceShapes == {Shape(CurrentId, <<"u1", "u2">>)}

InitRace ==
  /\ \E shapes \in SeqsUpTo(RaceShapes, MaxInitTeams), rich \in BOOLEAN :
       InitStore(shapes, rich, {}, {})
  /\ adminDb = TRUE
  /\ InitSeeders
  /\ db = TRUE
  /\ InitPage(CurrentId)

VisitorRead ==
  \/ AuthChange(None)
  \/ RunEffect
  \/ \E c \in 1..MaxCalls :
       \/ GetDocs(c)
       \/ GetDocsFail(c)

NextRace ==
  \/ \E p \in Seeders : SeedStart(p)
  \/ \E p \in Seeders : FullWipeStep(p)
  \/ VisitorRead

SpecRace == InitRace /\ [][NextRace]_vars

\* ------------------------------------------- selective-cleanup seeder variant
\* The docs of existingTeams from the first single-member team on: the loop
\* awaits only where memberIds.length === 1.
RECURSIVE FromFirstSolo(_)
FromFirstSolo(docs) ==
  IF docs = <<>> THEN <<>>
  ELSE IF Len(Head(docs).memberIds) = 1 THEN docs
  ELSE FromFirstSolo(Tail(docs))

ToSoloOrTeams(s, docs) ==
  IF FromFirstSolo(docs) = <<>>
    THEN [s EXCEPT !.existingTeams = <<>>, !.pc = "aAddTeam", !.k = 1]
  ELSE [s EXCEPT !.existingTeams = FromFirstSolo(docs), !.pc = "aDelSolo"]

\* main() of the variant up to its first await.
AltStart(p) ==
  /\ \/ seed[p].pc = "idle"
     \/ seed[p].pc = "done" /\ hist.started < MaxRuns
  /\ adminDb
  /\ seed' = [seed EXCEPT ![p] = [IdleSeed EXCEPT !.pc = "aQTeams",
                                                  !.startId = nextId]]
  /\ hist' = [hist EXCEPT !.started = @ + 1]
  /\ UNCHANGED <<storeVars, adminDb, pageVars>>

\* existingTeams = await teamsRef.where("hackathonId", "==", hackathonId).get()
AltQueryTeams(p) ==
  /\ seed[p].pc = "aQTeams"
  /\ seed' = [seed EXCEPT ![p] =
                ToSoloOrTeams(seed[p],
                              SortById(WhereHackathon(hackathonTeams, CurrentId)))]
  /\ UNCHANGED <<storeVars, adminDb, hist, pageVars>>

\* if (memberIds.length === 1) await d.ref.delete()
AltDeleteSolo(p) ==
  /\ seed[p].pc = "aDelSolo"
  /\ hackathonTeams' = DeleteDoc(hackathonTeams, Head(seed[p].existingTeams).id)
  /\ seed' = [seed EXCEPT ![p] =
                ToSoloOrTeams(seed[p], Tail(seed[p].existingTeams))]
  /\ hist' = [hist EXCEPT !.removed =
                 @ \cup {t \in hackathonTeams : t.id = Head(seed[p].existingTeams).id}]
  /\ UNCHANGED <<hackathonSubmissions, hackathonInvites, hackathonJoinRequests,
                 hackathonPool, users, nextId, adminDb, pageVars>>

\* docRef = await teamsRef.add({...}); the variant adds no submission.
AltAddTeam(p) ==
  /\ seed[p].pc = "aAddTeam"
  /\ hackathonTeams' = hackathonTeams \cup {FixtureDoc(nextId, FixtureTeams[seed[p].k])}
  /\ nextId' = nextId + 1
  /\ seed' = [seed EXCEPT ![p] =
                IF seed[p].k < Len(FixtureTeams)
                  THEN [seed[p] EXCEPT !.docRef = nextId, !.k = seed[p].k + 1]
                ELSE [seed[p] EXCEPT !.docRef = nextId, !.pc = "aSetUser"]]
  /\ UNCHANGED <<hackathonSubmissions, hackathonInvites, hackathonJoinRequests,
                 hackathonPool, users, adminDb, hist, pageVars>>

\* await usersRef.doc(MOCK_POOL_USER_ID).set({...}, { merge: true })
AltSetUser(p) ==
  /\ seed[p].pc = "aSetUser"
  /\ users' = MergeUser(users, MOCK_POOL_USER_ID, MockPoolDisplayName)
  /\ seed' = [seed EXCEPT ![p] = [seed[p] EXCEPT !.pc = "aSetPool"]]
  /\ UNCHANGED <<hackathonTeams, hackathonSubmissions, hackathonInvites,
                 hackathonJoinRequests, hackathonPool, nextId, adminDb, hist,
                 pageVars>>

\* await poolRef.doc(poolDocId).set({...}); main() returns.
AltSetPool(p) ==
  /\ seed[p].pc = "aSetPool"
  /\ hackathonPool' =
       SetDoc(hackathonPool,
              [id |-> PoolDocId(MOCK_POOL_USER_ID, CurrentId),
               userId |-> MOCK_POOL_USER_ID, hackathonId |-> CurrentId])
  /\ seed' = [seed EXCEPT ![p] = [seed[p] EXCEPT !.pc = "done"]]
  /\ hist' = [hist EXCEPT !.completed = @ + 1]
  /\ UNCHANGED <<hackathonTeams, hackathonSubmissions, hackathonInvites,
                 hackathonJoinRequests, users, nextId, adminDb, pageVars>>

NextAlt ==
  \/ AltStart(1)
  \/ AltQueryTeams(1)
  \/ AltDeleteSolo(1)
  \/ AltAddTeam(1)
  \/ AltSetUser(1)
  \/ AltSetPool(1)

InitAlt ==
  /\ \E shapes \in SeqsUpTo(SeedShapes, MaxInitTeams), rich \in BOOLEAN :
       InitStore(shapes, rich,
                 IF rich THEN {<<"u2", CurrentId>>, <<"u1", OtherId>>} ELSE {},
                 {})
  /\ adminDb = TRUE
  /\ InitSeeders
  /\ db = TRUE
  /\ InitPage(CurrentId)

SpecAlt == InitAlt /\ [][NextAlt]_vars

\* ----------------------------------------- claims on the seeder on its own
Done(p) == seed[p].pc = "done"

EventTeams == WhereHackathon(hackathonTeams, CurrentId)
EventSubmissions == WhereHackathon(hackathonSubmissions, CurrentId)
EventPool == WhereHackathon(hackathonPool, CurrentId)

\* The event's teams are the fixture: one document per fixture team.
ExactlyFixtureTeams ==
  /\ Cardinality(EventTeams) = Len(FixtureTeams)
  /\ \A k \in 1..Len(FixtureTeams) :
       \E t \in EventTeams : t = FixtureDoc(t.id, FixtureTeams[k])

\* The event's pool is the mock pool user's entry alone.
ExactlyMockPool ==
  EventPool = {[id |-> PoolDocId(MOCK_POOL_USER_ID, CurrentId),
                userId |-> MOCK_POOL_USER_ID, hackathonId |-> CurrentId]}

\* C1: when the full-wipe seeder has run to completion twice or more with no
\* other writer, the event has the same numbers of Team, Pool Entry and User
\* Profile records as after its first completed run: the two fixture teams and
\* the one pool entry, no duplicates.
C1_SeederIdempotent ==
  (Done(1) /\ hist.completed >= 2) =>
    /\ Summary(hackathonTeams, hackathonPool, users) = hist.first[1]
    /\ ExactlyFixtureTeams
    /\ ExactlyMockPool

\* C1 witness: a second completed run over a store that held teams, pool
\* entries and profiles before the first.
C1_Witness ==
  /\ Done(1) /\ hist.completed = 2
  /\ hist.removed # {}
  /\ [id |-> "u1", displayName |-> "Uma"] \in users

Children == hackathonSubmissions \cup hackathonInvites \cup hackathonJoinRequests

\* C4: after a run of the full-wipe seeder on its own, every Submission, Invite
\* and Join Request references a team that exists; and while the run deletes
\* the teams, no Invite or Join Request references a team still to be deleted.
C4_NoOrphans ==
  /\ Done(1) => \A d \in Children : d.teamId \in IdsOf(hackathonTeams)
  /\ seed[1].pc = "delTeams" =>
       \A t \in Range(seed[1].existingTeams) :
          /\ WhereTeam(hackathonInvites, t.id) = {}
          /\ WhereTeam(hackathonJoinRequests, t.id) = {}

\* C4 witness: a completed run that deleted teams which had child records,
\* next to another event's team whose children stay.
C4_Witness ==
  /\ Done(1)
  /\ hist.removed # {}
  /\ [id |-> "u1", displayName |-> "Uma"] \in users
  /\ hackathonInvites # {}

\* C10: whenever a run of the full-wipe seeder has completed, also after an
\* aborted run, the event has the two fixture teams, one submission per team,
\* the one pool entry and the one mock profile, all of them written by the last
\* run.
C10_RecoveredByRerun ==
  Done(1) =>
    /\ ExactlyFixtureTeams
    /\ \A t \in EventTeams :
         /\ t.id >= seed[1].startId
         /\ Cardinality(WhereTeam(hackathonSubmissions, t.id)) = 1
    /\ \A d \in EventSubmissions : d.teamId \in IdsOf(EventTeams)
    /\ ExactlyMockPool
    /\ {u \in users : u.id = MOCK_POOL_USER_ID} =
         {[id |-> MOCK_POOL_USER_ID, displayName |-> MockPoolDisplayName]}

\* C10 witness: a completed run after a run that aborted with the fixture
\* partly written (a team without its submission, or one team of the two).
C10_Witness ==
  /\ Done(1)
  /\ hist.aborted >= 1
  /\ hist.abortCreated \in {1, 2, 3}

\* ------------------------------------------------------ claims on the page
InBucket(t, bucket) == \E i \in 1..Len(bucket) : bucket[i] = t

InExactlyOneBucket(t) ==
  InBucket(t, teamsWithSlots) # InBucket(t, fullTeams)

\* C2 as stated: a team with at most 3 members is in exactly one of the two
\* buckets if and only if it has 2 or 3 members.
C2_Original ==
  Rendered =>
    \A t \in Range(teams) :
      Len(t.memberIds) <= 3 =>
        (InExactlyOneBucket(t) <=> Len(t.memberIds) \in {2, 3})

\* C2 amended: every team with at most 3 members is in exactly one bucket, the
\* open one when it has fewer than 3 members (0 and 1 included) and the full
\* one when it has 3; a team with more than 3 members is in neither.
C2_BucketPartition ==
  Rendered =>
    \A t \in Range(teams) :
      /\ InBucket(t, teamsWithSlots) <=> Len(t.memberIds) \in {0, 1, 2}
      /\ InBucket(t, fullTeams) <=> Len(t.memberIds) = 3
      /\ Len(t.memberIds) <= 3 => InExactlyOneBucket(t)
      /\ Len(t.memberIds) > 3 =>
           ~InBucket(t, teamsWithSlots) /\ ~InBucket(t, fullTeams)

\* C2 witness: the rendered roster holds a team of fewer than 2 members, shown
\* as open, and a team of more than 3 members, shown nowhere.
C2_Witness ==
  /\ Rendered
  /\ \E t \in Range(teamsWithSlots) : Len(t.memberIds) < 2
  /\ \E t \in Range(teams) : Len(t.memberIds) > 3

\* How many times x occurs in the sequence s.
Occurrences(s, x) == Cardinality({i \in 1..Len(s) : s[i] = x})

RequestsOf(u, t) ==
  {r \in hackathonJoinRequests : r.fromUserId = u /\ r.teamId = t}

\* C3: the Join Request records of a user u for a team t are as many as the
\* requestJoin(u, t) calls whose write succeeded, all with status "pending":
\* each successful call adds one, an equal request already there or not.
C3_NoIdempotencyGuard ==
  \A u \in Viewers : \A t \in IdsOf(hackathonTeams) :
    /\ Cardinality(RequestsOf(u, t)) = Occurrences(view.sent, <<u, t>>)
    /\ \A r \in RequestsOf(u, t) : r.status = "pending"

\* C3 witness: two calls for the same user and team are in flight together,
\* both past their write, and the store holds two requests for the pair.
C3_Witness ==
  \E c, d \in 1..MaxCalls :
    /\ c # d
    /\ calls[c].kind = "join" /\ calls[d].kind = "join"
    /\ calls[c].pc = "getDocs" /\ calls[d].pc = "getDocs"
    /\ calls[c].cu = calls[d].cu /\ calls[c].teamId = calls[d].teamId
    /\ Cardinality(RequestsOf(calls[c].cu, calls[c].teamId)) = 2

\* C6: in the rendered roster the "Request to join" control is on an open team
\* exactly when there is a user, the page found the user's Pool Entry, the team
\* is not the one recorded as the user's own and the user is not in its member
\* list.  So a member of a team never has the control on that team, and a
\* pooled user with no team recorded and in no listed team has it on every
\* open team.
C6_JoinButtonEligibility ==
  Rendered =>
    /\ \A t \in Range(teamsWithSlots) :
         t.id \in RequestButtons <=>
           /\ user # None
           /\ inPool
           /\ t.id # myTeamId
           /\ user \notin Range(t.memberIds)
    /\ \A t \in Range(teams) :
         user \in Range(t.memberIds) => t.id \notin RequestButtons
    /\ (/\ user # None
        /\ inPool
        /\ myTeamId = NoId
        /\ \A t \in Range(teams) : user \notin Range(t.memberIds))
         => \A t \in Range(teamsWithSlots) : t.id \in RequestButtons

\* C6 witness: a pooled user sees the control on one open team and not on an
\* open team that lists the user.
C6_Witness ==
  /\ Rendered /\ user # None /\ inPool
  /\ RequestButtons # {}
  /\ \E t \in Range(teamsWithSlots) :
       /\ user \in Range(t.memberIds)
       /\ t.id \notin RequestButtons

\* C7 as stated: after a failed read of loadRoster the team list is empty.
C7_Original ==
  view.lastRead \in {"teamsFailed", "poolFailed"} => teams = <<>>

\* C7 amended: a failed read raises no alert and leaves the loading flag
\* false, and the team list is what the latest successful team query returned
\* (empty only before the first one).
C7_ReadFailureKeepsView ==
  /\ teams = view.lastList
  /\ view.alerts = view.writeFails
  /\ view.lastRead \in {"teamsFailed", "poolFailed"} => ~loading

\* C7 witness: the refresh after a successful requestJoin failed at the team
\* query and the page still lists the teams read before.
C7_Witness ==
  /\ view.lastRead = "teamsFailed"
  /\ view.lastReadBy = "join"
  /\ teams # <<>>
  /\ ~loading

\* ------------------------------------------- claims on page and seeder
IsFixtureRoster(list) ==
  /\ Len(list) = Len(FixtureTeams)
  /\ \A k \in 1..Len(FixtureTeams) :
       \E i \in 1..Len(list) : list[i] = FixtureDoc(list[i].id, FixtureTeams[k])

\* C5: a roster read for the event after the full-wipe seeder has completed,
\* with no run in progress, holds exactly the two fixture teams, shown as one
\* open team (2/3 members, 1 open slot) and one full team (3/3), whatever
\* teams the event had before.
C5_SeededRoster ==
  view.readWhenDone =>
    /\ IsFixtureRoster(teams)
    /\ Len(teamsWithSlots) = 1
    /\ Len(teamsWithSlots[1].memberIds) = 2
    /\ OpenSlots(teamsWithSlots[1]) = 1
    /\ Len(fullTeams) = 1

\* C5 witness: the page shows a roster read after a completed run that
\* deleted teams of the event.
C5_Witness ==
  /\ view.readWhenDone
  /\ Rendered
  /\ hist.removed # {}
  /\ Len(teams) = 2

AllQuiet == \A p \in Seeders : seed[p].pc = "done"

C9_SteadyState ==
  Done(1) =>
    /\ \A t \in EventTeams : Len(t.memberIds) \in {2, 3}
    /\ \A t \in hist.removed :
         PoolDocId(t.memberIds[1], CurrentId) \in IdsOf(hackathonPool)
====
